---- MODULE Spec2Model ----
(***************************************************************************)
(* State-machine model of src/app.py: a Flask service that downloads the   *)
(* audio of a video with yt-dlp into a scratch directory and uploads it to *)
(* a GCS bucket under audio/<video_id>.mp3.                                *)
(*                                                                         *)
(* Each request runs on its own worker (a member of Workers).  A handler   *)
(* is cut into steps at its blocking calls to the extraction library and   *)
(* to the object store, so that requests interleave exactly where the      *)
(* framework lets them.  The extraction library and the object store are   *)
(* external: every outcome they can produce is a nondeterministic choice.  *)
(***************************************************************************)
EXTENDS Integers, Sequences, FiniteSets, TLC

\* ------------------------------------------------------------------ bounds
NumWorkers == 2     \* concurrently served requests
NumVideos  == 2     \* distinct video ids the extraction library may report

Workers  == 1..NumWorkers
VideoIds == {"v" \o ToString(i) : i \in 1..NumVideos}
DirNames == {"/tmp/tmp" \o ToString(i) : i \in 1..NumWorkers}

\* ------------------------------------------------------- python stand-ins
None == "<None>"                      \* Python's None
Truthy(x) == x # None /\ x # ""       \* `if x:` for an optional string
Get(d, k, default) == IF k \in DOMAIN d THEN d[k] ELSE default   \* dict.get

\* Request bodies: url missing, empty, or a real URL.
VideoUrl  == "https://www.youtube.com/watch?v=abc123"
UrlInputs == {None, "", VideoUrl}

VARIABLES
  BUCKET_NAME,   \* os.environ.get('BUCKET_NAME'): None, or the bucket
  PROXY_URL,     \* os.environ.get('PROXY_URL'):   None, or the proxy
  cookieFile,    \* environment: a usable cookie file lies on the local disk
  store,         \* the bucket: blob name -> blob, NoBlob when absent
  tmpdirs,       \* scratch directories that exist on the local disk
  tmpfiles,      \* <<dir, file>> pairs: the files inside them
  pc,            \* per worker: position inside its handler
  req,           \* per worker: the request being served
  resp,          \* per worker: the response returned
  tmpdir,        \* per worker: download_audio's `tmpdir`
  ydl_opts,      \* per worker: the options handed to yt_dlp.YoutubeDL
  info,          \* per worker: the dict extract_info returned
  audio_file,    \* per worker: download_audio's `audio_file`
  calls          \* per worker: extraction / store calls made by the request

vars == <<BUCKET_NAME, PROXY_URL, cookieFile, store, tmpdirs, tmpfiles,
          pc, req, resp, tmpdir, ydl_opts, info, audio_file, calls>>

config == <<BUCKET_NAME, PROXY_URL, cookieFile>>
disk   == <<tmpdirs, tmpfiles>>

POT_PROVIDER_URL == "http://127.0.0.1:4416"

\* ---------------------------------------------------------- object store
\* A blob name is its sequence of path segments: audio/<id>.mp3 is
\* <<"audio", "<id>.mp3">>, so that a prefix test looks at the segments.
blob_name(video_id) == <<"audio", video_id \o ".mp3">>
CookieBlob == <<"cookies.txt">>
BlobNames  == {blob_name(v) : v \in VideoIds} \cup {CookieBlob}
NoBlob     == [absent |-> TRUE]

RECURSIVE JoinPath(_)
JoinPath(segs) ==
  IF Len(segs) = 0 THEN ""
  ELSE IF Len(segs) = 1 THEN segs[1]
  ELSE segs[1] \o "/" \o JoinPath(Tail(segs))

\* bucket.list_blobs(prefix='audio/')
list_blobs(s, prefix) ==
  {n \in DOMAIN s : s[n] # NoBlob /\ Len(n) > 1 /\ n[1] \o "/" = prefix}

\* blob.exists()
blob_exists(s, name) == s[name] # NoBlob

\* The blob download_audio uploads (lines 99-108): the metadata, the content
\* type and the bytes of the local file (the object keeps no local name).
audio_blob(title, channel, duration, video_url, file) ==
  [ metadata     |-> [ title      |-> title,
                       channel    |-> channel,
                       duration   |-> ToString(duration),
                       source_url |-> video_url ],
    content_type |-> "audio/mpeg",
    size         |-> file.size ]

\* Outcomes of a store call: it succeeds, or it raises; a write that raised
\* may or may not have been applied by the service (a lost reply).
StoreError    == [type |-> "ServiceUnavailable", msg |-> "503 Service Unavailable"]
NotFoundError == [type |-> "NotFound", msg |-> "404 No such object"]
ReadOutcomes  == {"ok", "error"}
WriteOutcomes == {"ok", "error_unapplied", "error_applied"}

\* ----------------------------------------------------- extraction library
NoExc  == [type |-> "none", msg |-> ""]
NoInfo == [none |-> TRUE]
NoFile == [name |-> None, ext |-> None, size |-> 0]
DownloadError   == [type |-> "DownloadError", msg |-> "ERROR: Video unavailable"]
ExtractorCrash  == [type |-> "OSError", msg |-> "ffmpeg not found"]
KeyErrorId      == [type |-> "KeyError", msg |-> "'id'"]

File(name, ext) == [name |-> name, ext |-> ext, size |-> 4096]

\* The info dicts extract_info may return: complete, with the id alone, or
\* (a malformed result) without an id.
FullInfo(v) ==
  [ id |-> v, title |-> "Title", channel |-> "Channel", duration |-> 212,
    view_count |-> 10, upload_date |-> "20240101", thumbnail |-> "t.jpg",
    formats |-> << [format_id |-> "140", ext |-> "m4a", acodec |-> "mp4a"] >> ]
BareInfo(v) == [id |-> v]
Infos == {FullInfo(v) : v \in VideoIds} \cup {BareInfo(v) : v \in VideoIds}
           \cup {[title |-> "Title"]}

\* What the FFmpegExtractAudio run may leave in the output directory for a
\* result with id v: <id>.mp3, an mp3 under another name, the untranscoded
\* stream only, or nothing.
ProducedFiles(i) ==
  IF "id" \in DOMAIN i
  THEN { {File(i.id, "mp3")}, {File("audio", "mp3")}, {File(i.id, "webm")}, {} }
  ELSE { {} }

\* ydl.extract_info(video_url, download=...): [exc, info, files]
ExtractOutcomes(download) ==
  { [exc |-> e, info |-> NoInfo, files |-> F] :
      e \in {DownloadError, ExtractorCrash},
      F \in (IF download THEN { {}, {File("abc123", "part")} } ELSE { {} }) }
  \cup
  UNION { { [exc |-> NoExc, info |-> i, files |-> F] :
              F \in (IF download THEN ProducedFiles(i) ELSE { {} }) } : i \in Infos }

\* ------------------------------------------------------------ get_ydl_opts
\* The builder the cookie-based variant would be: the token provider only
\* when no cookie file is at hand.
get_ydl_opts_cookie_aware(dir) ==
  (IF Truthy(PROXY_URL) THEN "proxy" :> PROXY_URL ELSE <<>>) @@
  (IF Truthy(dir) THEN "outtmpl" :> (dir \o "/%(id)s.%(ext)s") ELSE <<>>) @@
  [ retries |-> 5, fragment_retries |-> 5, ignoreerrors |-> FALSE,
    geo_bypass |-> TRUE, geo_bypass_country |-> "US",
    nocheckcertificate |-> TRUE, socket_timeout |-> 60,
    extractor_retries |-> 3, noplaylist |-> TRUE,
    http_headers |-> ("User-Agent" :> "Mozilla/5.0" @@ "Accept" :> "text/html"
                        @@ "Accept-Language" :> "en-US,en;q=0.5"),
    extractor_args |->
      IF cookieFile
      THEN ("youtube" :> [player_client |-> <<"default", "mweb">>])
      ELSE ("youtube" :> [player_client |-> <<"default", "mweb">>]
            @@ "youtubepot-bgutilhttp" :> [base_url |-> <<POT_PROVIDER_URL>>]) ]

get_ydl_opts(dir) ==
  (IF Truthy(PROXY_URL) THEN "proxy" :> PROXY_URL ELSE <<>>) @@
  (IF Truthy(dir) THEN "outtmpl" :> (dir \o "/%(id)s.%(ext)s") ELSE <<>>) @@
  [ retries |-> 5, fragment_retries |-> 5, ignoreerrors |-> FALSE,
    geo_bypass |-> TRUE, geo_bypass_country |-> "US",
    nocheckcertificate |-> TRUE, socket_timeout |-> 60,
    extractor_retries |-> 3, noplaylist |-> TRUE,
    http_headers |-> ("User-Agent" :> "Mozilla/5.0" @@ "Accept" :> "text/html"
                        @@ "Accept-Language" :> "en-US,en;q=0.5"),
    extractor_args |-> ("youtube" :> [player_client |-> <<"default", "mweb">>]
                        @@ "youtubepot-bgutilhttp" :>
                             [base_url |-> <<POT_PROVIDER_URL>>]) ]

\* download_audio's additions (lines 71-77)
download_opts(dir) ==
  ("format" :> "bestaudio/best[height<=720]/best") @@
  ("postprocessors" :> << [key |-> "FFmpegExtractAudio",
                           preferredcodec |-> "mp3",
                           preferredquality |-> "192"] >>) @@
  get_ydl_opts(dir)

\* get_video_info's and list_formats' additions (lines 139-140, 167-168)
metadata_opts == ("skip_download" :> TRUE) @@ get_ydl_opts(None)

NoOpts == [none |-> TRUE]

\* ---------------------------------------------------------------- responses
Response(status, body) == [status |-> status, body |-> body]
NoResp == Response(0, [pending |-> TRUE])
NoReq  == [route |-> None, url |-> None, video_id |-> None]
NoCalls == [extract |-> 0, store |-> 0]

\* An exception no handler catches: Flask answers 500 with its own page.
Unhandled(e) == Response(500, [unhandled |-> e.type])

NoUrlResp    == Response(400, [error |-> "No URL provided"])
NoBucketResp == Response(500, [error |-> "BUCKET_NAME not configured"])

\* download_audio, lines 63-67 with the bucket test first.
download_validate_bucket_first(video_url) ==
  IF ~Truthy(BUCKET_NAME) THEN NoBucketResp
  ELSE IF ~Truthy(video_url) THEN NoUrlResp
  ELSE NoResp

\* download_audio, lines 60-67: the early returns (NoResp: none taken).
download_validate(video_url) ==
  IF ~Truthy(video_url) THEN NoUrlResp
  ELSE IF ~Truthy(BUCKET_NAME) THEN NoBucketResp
  ELSE NoResp

\* get_video_info / list_formats, lines 135-136 and 163-164.
url_validate(video_url) ==
  IF ~Truthy(video_url) THEN NoUrlResp ELSE NoResp

\* list_audio_files / delete_audio with the bucket test left out.
bucket_validate_missing == NoResp

\* list_audio_files / delete_audio, lines 194-195 and 220-221.
bucket_validate ==
  IF ~Truthy(BUCKET_NAME) THEN NoBucketResp ELSE NoResp

\* download_audio's handlers without the catch-all clause.
download_except_no_catch_all(e) ==
  IF e.type = "DownloadError"
  THEN Response(400, [error |-> "Download failed: " \o e.msg])
  ELSE Unhandled(e)

\* download_audio, lines 123-126.
download_except(e) ==
  IF e.type = "DownloadError"
  THEN Response(400, [error |-> "Download failed: " \o e.msg])
  ELSE Response(500, [error |-> e.msg])

\* get_video_info, lines 153-154: the one catch-all clause.
info_except(e) == Response(500, [error |-> e.msg])

\* list_formats, lines 187-188: the one catch-all clause.
formats_except(e) == Response(500, [error |-> e.msg])

\* list_audio_files 213-214 and delete_audio 233-234: a catch-all each.
generic_except(e) == Response(500, [error |-> e.msg])

\* download_audio, lines 110-121.
download_success(video_id, title, channel, duration, file, video_url) ==
  Response(200,
    [ success          |-> TRUE,
      video_id         |-> video_id,
      title            |-> title,
      channel          |-> channel,
      duration_seconds |-> duration,
      file_size_bytes  |-> file.size,
      gcs_path         |-> "gs://" \o BUCKET_NAME \o "/audio/" \o video_id \o ".mp3",
      url              |-> "https://storage.googleapis.com/" \o BUCKET_NAME
                             \o "/audio/" \o video_id \o ".mp3" ])

NoMp3Resp ==
  Response(500, [error |-> "Audio extraction failed - no mp3 file created"])

\* get_video_info, lines 144-152 (info['id'] is there: the caller checked).
info_success(i) ==
  Response(200,
    [ video_id         |-> i.id,
      title            |-> Get(i, "title", None),
      channel          |-> Get(i, "channel", None),
      duration_seconds |-> Get(i, "duration", None),
      view_count       |-> Get(i, "view_count", None),
      upload_date      |-> Get(i, "upload_date", None),
      thumbnail        |-> Get(i, "thumbnail", None) ])

\* list_formats, lines 172-186.
formats_success(i) ==
  LET fs == Get(i, "formats", <<>>) IN
  Response(200,
    [ video_id |-> i.id,
      title    |-> Get(i, "title", None),
      formats  |-> [k \in 1..Len(fs) |->
                     [ format_id  |-> Get(fs[k], "format_id", None),
                       ext        |-> Get(fs[k], "ext", None),
                       resolution |-> Get(fs[k], "resolution", None),
                       filesize   |-> Get(fs[k], "filesize", None),
                       acodec     |-> Get(fs[k], "acodec", None),
                       vcodec     |-> Get(fs[k], "vcodec", None) ]] ])

\* list_audio_files over every blob of the bucket (the prefix dropped).
list_success_no_prefix(s) ==
  LET files == { [ name     |-> JoinPath(n),
                   size_bytes |-> s[n].size,
                   metadata |-> s[n].metadata,
                   url      |-> "https://storage.googleapis.com/" \o BUCKET_NAME
                                  \o "/" \o JoinPath(n) ] :
                 n \in {m \in DOMAIN s : s[m] # NoBlob} } IN
  Response(200, [files |-> files, count |-> Cardinality(files)])

\* list_audio_files, lines 200-212; `files` as the set of its entries.
list_success(s) ==
  LET files == { [ name     |-> JoinPath(n),
                   size_bytes |-> s[n].size,
                   metadata |-> s[n].metadata,
                   url      |-> "https://storage.googleapis.com/" \o BUCKET_NAME
                                  \o "/" \o JoinPath(n) ] :
                 n \in list_blobs(s, "audio/") } IN
  Response(200, [files |-> files, count |-> Cardinality(files)])

\* delete_audio with the existence test left out.
delete_after_exists_unchecked(exists) ==
  [pc |-> "del_delete", resp |-> NoResp]

\* delete_audio, lines 228-232: where the handler goes after blob.exists().
delete_after_exists(exists) ==
  IF exists
  THEN [pc |-> "del_delete", resp |-> NoResp]
  ELSE [pc |-> "done", resp |-> Response(404, [error |-> "File not found"])]

\* delete_audio, line 230.
delete_success(video_id) ==
  Response(200, [success |-> TRUE, message |-> "Deleted " \o video_id \o ".mp3"])

\* health, lines 239-244.
health_response ==
  Response(200,
    [ status            |-> "healthy",
      bucket_configured |-> Truthy(BUCKET_NAME),
      proxy_configured  |-> Truthy(PROXY_URL),
      pot_provider_url  |-> POT_PROVIDER_URL ])

\* index, lines 247-259.
index_response ==
  Response(200,
    [ name      |-> "YouTube Audio Downloader API",
      endpoints |-> ( "POST /download" :> "Download single video as audio"
                      @@ "POST /info" :> "Get video info without downloading"
                      @@ "POST /formats" :> "List available formats for a video"
                      @@ "GET /list" :> "List all audio files in bucket"
                      @@ "DELETE /delete/<video_id>" :> "Delete an audio file"
                      @@ "GET /health" :> "Health check" ) ])

\* ------------------------------------------------------- scratch directory
\* tempfile.TemporaryDirectory(): a name no existing directory has.
mkdtemp(existing) == DirNames \ existing

\* A directory that is never removed.
cleanup_nothing(dk, d) == dk

\* TemporaryDirectory.__exit__: the directory and all it holds are removed.
cleanup(dk, d) ==
  [dirs |-> dk.dirs \ {d}, files |-> {x \in dk.files : x[1] # d}]

\* glob over every file of the directory.
find_mp3_any_file(files, video_id) ==
  LET primary == {f \in files : f.name = video_id /\ f.ext = "mp3"} IN
  IF primary # {} THEN primary ELSE files

\* download_audio, lines 87-89.
find_mp3(files, video_id) ==
  LET primary == {f \in files : f.name = video_id /\ f.ext = "mp3"} IN
  IF primary # {} THEN primary ELSE {f \in files : f.ext = "mp3"}

\* ------------------------------------------------------------------- Init
Init ==
  /\ BUCKET_NAME \in {None, "my-bucket"}
  /\ PROXY_URL \in {None, "http://proxy:3128"}
  /\ cookieFile \in BOOLEAN
  /\ store = [n \in BlobNames |->
                IF n = CookieBlob
                THEN [metadata |-> None, content_type |-> "text/plain",
                      size |-> File("cookies", "txt").size]
                ELSE NoBlob]
  /\ tmpdirs = {}
  /\ tmpfiles = {}
  /\ pc = [p \in Workers |-> "idle"]
  /\ req = [p \in Workers |-> NoReq]
  /\ resp = [p \in Workers |-> NoResp]
  /\ tmpdir = [p \in Workers |-> None]
  /\ ydl_opts = [p \in Workers |-> NoOpts]
  /\ info = [p \in Workers |-> NoInfo]
  /\ audio_file = [p \in Workers |-> NoFile]
  /\ calls = [p \in Workers |-> NoCalls]

\* The handler of worker p returns r: its locals are gone with its frame
\* (ydl_opts stays on record until the response is sent).
Finish(p, r) ==
  /\ resp' = [resp EXCEPT ![p] = r]
  /\ pc' = [pc EXCEPT ![p] = "done"]
  /\ tmpdir' = [tmpdir EXCEPT ![p] = None]
  /\ info' = [info EXCEPT ![p] = NoInfo]
  /\ audio_file' = [audio_file EXCEPT ![p] = NoFile]

\* The handler of worker p moves on to its step at `to`.
Goto(p, to) ==
  /\ pc' = [pc EXCEPT ![p] = to]
  /\ UNCHANGED resp

Called(p, what) ==
  calls' = [calls EXCEPT ![p][what] = @ + 1]

Request(p, route, url, video_id) ==
  /\ pc[p] = "idle"
  /\ req' = [req EXCEPT ![p] = [route |-> route, url |-> url,
                                video_id |-> video_id]]

\* --------------------------------------------------------- POST /download
\* Lines 60-77: validation, the scratch directory, the options.
Download(p) ==
  \E url \in UrlInputs :
    /\ Request(p, "/download", url, None)
    /\ IF download_validate(url) # NoResp
       THEN /\ Finish(p, download_validate(url))
            /\ UNCHANGED <<tmpdirs, ydl_opts>>
       ELSE \E d \in mkdtemp(tmpdirs) :
              /\ tmpdirs' = tmpdirs \cup {d}
              /\ tmpdir' = [tmpdir EXCEPT ![p] = d]
              /\ ydl_opts' = [ydl_opts EXCEPT ![p] = download_opts(d)]
              /\ Goto(p, "dl_extract")
              /\ UNCHANGED <<info, audio_file>>
    /\ UNCHANGED <<config, store, tmpfiles, calls>>

\* Lines 79-94: extract_info(download=True), then the search for the MP3.
\* Every return and every exception leaves the `with` block: cleanup.
DlExtract(p) ==
  /\ pc[p] = "dl_extract"
  /\ Called(p, "extract")
  /\ \E o \in ExtractOutcomes(TRUE) :
       LET d       == tmpdir[p]
           written == [dirs |-> tmpdirs,
                       files |-> tmpfiles \cup {<<d, f>> : f \in o.files}]
           gone    == cleanup(written, d)
           inside  == {x[2] : x \in {y \in written.files : y[1] = d}}
       IN
       IF o.exc # NoExc
       THEN /\ Finish(p, download_except(o.exc))
            /\ tmpdirs' = gone.dirs /\ tmpfiles' = gone.files
       ELSE IF "id" \notin DOMAIN o.info
       THEN /\ Finish(p, download_except(KeyErrorId))
            /\ tmpdirs' = gone.dirs /\ tmpfiles' = gone.files
       ELSE IF find_mp3(inside, o.info.id) = {}
       THEN /\ Finish(p, NoMp3Resp)
            /\ tmpdirs' = gone.dirs /\ tmpfiles' = gone.files
       ELSE \E f \in find_mp3(inside, o.info.id) :
            /\ audio_file' = [audio_file EXCEPT ![p] = f]
            /\ info' = [info EXCEPT ![p] = o.info]
            /\ tmpdirs' = written.dirs /\ tmpfiles' = written.files
            /\ Goto(p, "dl_upload")
            /\ UNCHANGED tmpdir
  /\ UNCHANGED <<config, store, req, ydl_opts>>

\* Lines 95-121: the upload and the success response.
DlUpload(p) ==
  /\ pc[p] = "dl_upload"
  /\ Called(p, "store")
  /\ \E out \in WriteOutcomes :
       LET video_id == info[p].id
           title    == Get(info[p], "title", video_id)
           duration == Get(info[p], "duration", 0)
           channel  == Get(info[p], "channel", "Unknown")
           blob     == audio_blob(title, channel, duration, req[p].url,
                                  audio_file[p])
           gone     == cleanup([dirs |-> tmpdirs, files |-> tmpfiles], tmpdir[p])
       IN
       /\ store' = IF out \in {"ok", "error_applied"}
                   THEN [store EXCEPT ![blob_name(video_id)] = blob]
                   ELSE store
       /\ Finish(p, IF out = "ok"
                    THEN download_success(video_id, title, channel, duration,
                                          audio_file[p], req[p].url)
                    ELSE download_except(StoreError))
       /\ tmpdirs' = gone.dirs /\ tmpfiles' = gone.files
  /\ UNCHANGED <<config, req, ydl_opts>>

\* ---------------------------------------------------- POST /info, /formats
\* get_video_info, lines 132-154.
GetVideoInfo(p) ==
  \E url \in UrlInputs, o \in ExtractOutcomes(FALSE) :
    /\ Request(p, "/info", url, None)
    /\ IF url_validate(url) # NoResp
       THEN /\ Finish(p, url_validate(url))
            /\ UNCHANGED <<ydl_opts, calls>>
       ELSE /\ ydl_opts' = [ydl_opts EXCEPT ![p] = metadata_opts]
            /\ Called(p, "extract")
            /\ Finish(p, IF o.exc # NoExc THEN info_except(o.exc)
                         ELSE IF "id" \notin DOMAIN o.info
                              THEN info_except(KeyErrorId)
                              ELSE info_success(o.info))
    /\ UNCHANGED <<config, store, disk>>

\* list_formats, lines 160-188.
ListFormats(p) ==
  \E url \in UrlInputs, o \in ExtractOutcomes(FALSE) :
    /\ Request(p, "/formats", url, None)
    /\ IF url_validate(url) # NoResp
       THEN /\ Finish(p, url_validate(url))
            /\ UNCHANGED <<ydl_opts, calls>>
       ELSE /\ ydl_opts' = [ydl_opts EXCEPT ![p] = metadata_opts]
            /\ Called(p, "extract")
            /\ Finish(p, IF o.exc # NoExc THEN formats_except(o.exc)
                         ELSE IF "id" \notin DOMAIN o.info
                              THEN formats_except(KeyErrorId)
                              ELSE formats_success(o.info))
    /\ UNCHANGED <<config, store, disk>>

\* ---------------------------------------------------------------- GET /list
\* Lines 194-214.
ListAudioFiles(p) ==
  /\ Request(p, "/list", None, None)
  /\ IF bucket_validate # NoResp
     THEN /\ Finish(p, bucket_validate)
          /\ UNCHANGED calls
     ELSE /\ Called(p, "store")
          /\ \E out \in ReadOutcomes :
               Finish(p, IF out = "ok" THEN list_success(store)
                         ELSE generic_except(StoreError))
  /\ UNCHANGED <<config, store, disk, ydl_opts>>

\* ------------------------------------------------ DELETE /delete/<video_id>
\* Lines 220-228: the bucket test and blob.exists().
DeleteAudio(p) ==
  \E video_id \in VideoIds :
    /\ Request(p, "/delete", None, video_id)
    /\ IF bucket_validate # NoResp
       THEN /\ Finish(p, bucket_validate)
            /\ UNCHANGED calls
       ELSE /\ Called(p, "store")
            /\ \E out \in ReadOutcomes :
                 LET next == delete_after_exists(
                               blob_exists(store, blob_name(video_id)))
                 IN IF out = "error"
                    THEN Finish(p, generic_except(StoreError))
                    ELSE IF next.pc = "done"
                    THEN Finish(p, next.resp)
                    ELSE /\ Goto(p, next.pc)
                         /\ UNCHANGED <<tmpdir, info, audio_file>>
    /\ UNCHANGED <<config, store, disk, ydl_opts>>

\* Lines 229-230: blob.delete(), which raises NotFound when the object is
\* gone, and the success response.
DelDelete(p) ==
  /\ pc[p] = "del_delete"
  /\ Called(p, "store")
  /\ LET name == blob_name(req[p].video_id) IN
     IF ~blob_exists(store, name)
     THEN /\ Finish(p, generic_except(NotFoundError))
          /\ UNCHANGED store
     ELSE \E out \in WriteOutcomes :
            /\ store' = IF out \in {"ok", "error_applied"}
                        THEN [store EXCEPT ![name] = NoBlob]
                        ELSE store
            /\ Finish(p, IF out = "ok" THEN delete_success(req[p].video_id)
                         ELSE generic_except(StoreError))
  /\ UNCHANGED <<config, req, disk, ydl_opts>>

\* -------------------------------------------------------------- GET /health
Health(p) ==
  /\ Request(p, "/health", None, None)
  /\ Finish(p, health_response)
  /\ UNCHANGED <<config, store, disk, ydl_opts, calls>>

\* -------------------------------------------------------------------- GET /
Index(p) ==
  /\ Request(p, "/", None, None)
  /\ Finish(p, index_response)
  /\ UNCHANGED <<config, store, disk, ydl_opts, calls>>

\* The response is sent and the worker is free for the next request.
Return(p) ==
  /\ pc[p] = "done"
  /\ pc' = [pc EXCEPT ![p] = "idle"]
  /\ req' = [req EXCEPT ![p] = NoReq]
  /\ resp' = [resp EXCEPT ![p] = NoResp]
  /\ ydl_opts' = [ydl_opts EXCEPT ![p] = NoOpts]
  /\ calls' = [calls EXCEPT ![p] = NoCalls]
  /\ UNCHANGED <<config, store, disk, tmpdir, info, audio_file>>

Next ==
  \E p \in Workers :
    \/ Download(p)
    \/ DlExtract(p)
    \/ DlUpload(p)
    \/ GetVideoInfo(p)
    \/ ListFormats(p)
    \/ ListAudioFiles(p)
    \/ DeleteAudio(p)
    \/ DelDelete(p)
    \/ Health(p)
    \/ Index(p)
    \/ Return(p)

Spec == Init /\ [][Next]_vars

\* The blocking calls return: get_ydl_opts bounds the extraction by its
\* retry counts and socket timeout (lines 23-30), and the store client's
\* calls end in a result or an exception.
FairSpec ==
  /\ Spec
  /\ \A p \in Workers :
       WF_vars(DlExtract(p)) /\ WF_vars(DlUpload(p)) /\ WF_vars(DelDelete(p))

\* =================================================================== claims
Done(p, route) == pc[p] = "done" /\ req[p].route = route
Finishes(p)    == pc[p] # "done" /\ pc'[p] = "done"
IsErrorBody(r) == DOMAIN r.body = {"error"}
HasPot(opts)   == "youtubepot-bgutilhttp" \in DOMAIN opts.extractor_args
Running(p)     == pc[p] \in {"dl_extract", "dl_upload"}
AudioObjects   == {n \in BlobNames : store[n] # NoBlob /\ Len(n) = 2 /\ n[1] = "audio"}
ExtractionRoutes == {"/download", "/info", "/formats"}

\* C1: a /download request with a non-empty url and the bucket configured
\* ends, whatever the extraction library and the store do, either with the
\* success object (success = TRUE, gcs_path = gs://<bucket>/audio/<id>.mp3
\* for the id the extraction returned) or with {error} and status 400 or
\* 500; no exception escapes the handler.
C1_DownloadOutcome ==
  [][ \A p \in Workers :
        ( /\ Finishes(p)
          /\ req'[p].route = "/download"
          /\ Truthy(req'[p].url)
          /\ Truthy(BUCKET_NAME) )
        => \/ /\ pc[p] = "dl_upload"
              /\ resp'[p].status = 200
              /\ resp'[p].body.success = TRUE
              /\ resp'[p].body.video_id = info[p].id
              /\ resp'[p].body.gcs_path =
                   "gs://" \o BUCKET_NAME \o "/" \o JoinPath(blob_name(info[p].id))
           \/ /\ resp'[p].status \in {400, 500}
              /\ IsErrorBody(resp'[p]) ]_vars
  /\ \A p \in Workers : Running(p) ~> (pc[p] = "done")

C1_Witness ==
  \E p \in Workers :
    /\ Done(p, "/download")
    /\ resp[p].status = 200
    /\ resp[p].body.gcs_path = "gs://my-bucket/audio/v1.mp3"

\* C2: /download, /info and /formats answer a body without url (or with an
\* empty one) with 400 {"error": "No URL provided"}, whatever the bucket
\* configuration, and call neither the extraction library nor the store.
C2_NoUrl ==
  \A p \in Workers :
    ( /\ pc[p] = "done"
      /\ req[p].route \in ExtractionRoutes
      /\ ~Truthy(req[p].url) )
    => /\ resp[p] = Response(400, [error |-> "No URL provided"])
       /\ calls[p] = NoCalls

C2_Witness ==
  /\ ~Truthy(BUCKET_NAME)
  /\ \E p \in Workers :
       /\ Done(p, "/download")
       /\ req[p].url = None
       /\ resp[p].status = 400

\* C3: without a bucket name, /download with a url, /list and /delete are
\* answered 500 with the configuration error and make no extraction and no
\* store call; /health, /info and /formats are served, and /health reports
\* bucket_configured = FALSE.
C3_NoBucket ==
  ~Truthy(BUCKET_NAME) =>
    \A p \in Workers :
      /\ pc[p] \in {"idle", "done"}
      /\ ( Done(p, "/list") \/ Done(p, "/delete")
           \/ (Done(p, "/download") /\ Truthy(req[p].url)) )
         => /\ resp[p] = Response(500, [error |-> "BUCKET_NAME not configured"])
            /\ calls[p] = NoCalls
      /\ Done(p, "/health")
         => /\ resp[p].status = 200
            /\ resp[p].body.bucket_configured = FALSE
      /\ ( (Done(p, "/info") \/ Done(p, "/formats")) /\ Truthy(req[p].url) )
         => /\ calls[p].extract = 1
            /\ resp[p].status = 200 \/ IsErrorBody(resp[p])
            /\ resp[p] # Response(500, [error |-> "BUCKET_NAME not configured"])

C3_Witness ==
  /\ ~Truthy(BUCKET_NAME)
  /\ \E p, q \in Workers :
       /\ Done(p, "/delete") /\ resp[p].status = 500
       /\ Done(q, "/info") /\ resp[q].status = 200

\* C4: with the bucket configured, a DELETE /delete/<video_id> that finds
\* audio/<video_id>.mp3 absent answers 404 {"error": "File not found"} and
\* leaves the store unchanged, whatever downloads and deletes came before
\* (a store that fails to answer the existence test is the 500 of a store
\* error, and changes nothing either).
C4_DeleteAbsent ==
  [][ \A p \in Workers :
        ( /\ pc[p] = "idle"
          /\ req'[p].route = "/delete"
          /\ Truthy(BUCKET_NAME)
          /\ store[blob_name(req'[p].video_id)] = NoBlob )
        => /\ store' = store
           /\ pc'[p] = "done"
           /\ \/ resp'[p] = Response(404, [error |-> "File not found"])
              \/ resp'[p] = Response(500, [error |-> StoreError.msg]) ]_vars

C4_Witness ==
  \E p, q \in Workers :
    /\ Done(p, "/delete") /\ resp[p].status = 200
    /\ Done(q, "/delete") /\ resp[q].status = 404
    /\ req[p].video_id = req[q].video_id

\* C5: a /list request that the store answers returns count equal to the
\* number of objects under audio/ in the store at the time of the call, and
\* files holds exactly one entry per such object.
C5_ListFresh ==
  [][ \A p \in Workers :
        ( /\ pc[p] = "idle"
          /\ req'[p].route = "/list"
          /\ Truthy(BUCKET_NAME) )
        => \/ resp'[p] = Response(500, [error |-> StoreError.msg])
           \/ /\ resp'[p].status = 200
              /\ resp'[p].body.count = Cardinality(AudioObjects)
              /\ Cardinality(resp'[p].body.files) = Cardinality(AudioObjects)
              /\ {f.name : f \in resp'[p].body.files}
                   = {JoinPath(n) : n \in AudioObjects} ]_vars

C5_Witness ==
  \E p \in Workers :
    /\ Done(p, "/list")
    /\ resp[p].status = 200
    /\ resp[p].body.count = 2
    /\ store[CookieBlob] # NoBlob

\* C6 (as claimed): with a usable cookie file the options never hold the
\* token-provider extractor argument, and without one they always do.
C6_CookieExcludesPot ==
  \A p \in Workers :
    ydl_opts[p] # NoOpts => (HasPot(ydl_opts[p]) <=> ~cookieFile)

\* C6 (amended): the option builder takes no cookie input: the options it
\* returns always hold the token-provider argument with the configured base
\* url, for every proxy setting and output directory, cookie file or not.
C6_AlwaysPot ==
  \A p \in Workers :
    ydl_opts[p] # NoOpts
    => /\ HasPot(ydl_opts[p])
       /\ ydl_opts[p].extractor_args["youtubepot-bgutilhttp"].base_url
            = <<POT_PROVIDER_URL>>

C6_Witness ==
  /\ cookieFile
  /\ \E p, q \in Workers :
       /\ pc[p] = "dl_extract"
       /\ "proxy" \in DOMAIN ydl_opts[p]
       /\ "outtmpl" \in DOMAIN ydl_opts[p]
       /\ Done(q, "/info")
       /\ ydl_opts[q] # NoOpts

\* C7 (as claimed): in /download, /info and /formats a DownloadError of the
\* extraction library is answered 400 with its message, and only other
\* exceptions are answered 500.
C7_DownloadErrorIs400 ==
  \A p \in Workers :
    ( /\ pc[p] = "done"
      /\ req[p].route \in ExtractionRoutes
      /\ IsErrorBody(resp[p])
      /\ resp[p].body.error \in
           {DownloadError.msg, "Download failed: " \o DownloadError.msg} )
    => resp[p].status = 400

\* C8: every /download request that passes validation works in a fresh
\* scratch directory of its own; no two running downloads share one; and
\* when a request has returned, on whatever path, its directory and all the
\* files in it are gone.
C8_ScratchDirs ==
  /\ \A p \in Workers : Running(p) => tmpdir[p] \in tmpdirs
  /\ \A p \in Workers :
       pc[p] = "dl_extract" => \A x \in tmpfiles : x[1] # tmpdir[p]
  /\ \A p, q \in Workers :
       (p # q /\ Running(p) /\ Running(q)) => tmpdir[p] # tmpdir[q]
  /\ tmpdirs = {tmpdir[p] : p \in {w \in Workers : Running(w)}}
  /\ \A x \in tmpfiles : x[1] \in tmpdirs

C8_Witness ==
  \E p, q \in Workers :
    /\ pc[p] = "dl_upload"
    /\ <<tmpdir[p], audio_file[p]>> \in tmpfiles
    /\ Done(q, "/download")
    /\ calls[q].extract = 1
    /\ resp[q].status = 400
    /\ tmpdirs = {tmpdir[p]}

\* C9 (as claimed): against a working store, of the concurrent DELETE
\* requests for one id the one that removed the object answers 200 and every
\* other answers 404; none answers 500.
C9_DeleteNever500 ==
  \A p, q \in Workers :
    ( /\ p # q
      /\ Done(p, "/delete") /\ Done(q, "/delete")
      /\ req[p].video_id = req[q].video_id
      /\ resp[q].status = 200
      /\ resp[p] # Response(500, [error |-> StoreError.msg]) )
    => resp[p].status \in {200, 404}

\* C10: the store changes only in the final upload step of /download, which
\* runs after the extraction succeeded and an MP3 was located in the scratch
\* directory, and in the delete step of /delete: a /download that ends in a
\* validation, configuration, extraction or no-MP3 error, and /info,
\* /formats, /list and /health, leave every store object as it was.
C10_StoreFrame ==
  [][ \A p \in Workers :
        (pc'[p] # pc[p] /\ store' # store)
        => \/ /\ pc[p] = "dl_upload"
              /\ calls[p].extract = 1
              /\ audio_file[p].ext = "mp3"
              /\ <<tmpdir[p], audio_file[p]>> \in tmpfiles
              /\ \A n \in BlobNames :
                   n # blob_name(info[p].id) => store'[n] = store[n]
           \/ /\ pc[p] = "del_delete"
              /\ \A n \in BlobNames :
                   n # blob_name(req[p].video_id) => store'[n] = store[n] ]_vars

C10_Witness ==
  \E p \in Workers :
    /\ Done(p, "/download")
    /\ resp[p] = NoMp3Resp
    /\ AudioObjects # {}
====
